---- MODULE Spec2Model ----
(***************************************************************************)
(* Model of the calendar-availability and session-scheduling engine of     *)
(* src/calendar_maker.py (process_schedule_request and its helpers).       *)
(*                                                                         *)
(* Time is measured in whole minutes of local wall-clock time, relative to *)
(* midnight of the run's current date ("today" is date 0, so yesterday is  *)
(* date -1).  Effort is kept in hundredths of an hour, the resolution in   *)
(* which src/predictive_model.py:246 hands it over, so effort_hours * 60   *)
(* is an exact multiple of 0.6 minutes and the integer divisions of the    *)
(* session generator are computed exactly as the code computes them.      *)
(***************************************************************************)
EXTENDS Integers, Sequences, FiniteSets, TLC

VARIABLES
    pc,                 \* position inside process_schedule_request
    json_data,          \* request: user_preferences.work_windows and assignments
    uploaded_files,     \* the uploaded calendar documents (parsed events)
    now,                \* today_dt: minute of day 0 read from the clock
    fixed_tasks,        \* fixed_tasks list (line 452)
    free_blocks,        \* free_blocks map: date -> list of <<start, end>>
    floating_sessions,  \* floating_sessions list (line 488)
    daily_usage_tracker,\* date -> minutes placed on that date
    daily_class_tracker,\* date -> set of class names placed on that date
    idx,                \* index of the next session of the running phase
    scheduled_p1,
    unscheduled_p1,
    scheduled_p2,
    unscheduled_final,
    final_optimized,    \* output of merge_contiguous_sessions
    result,             \* the returned summary
    output_ics,         \* the events of the calendar document written
    fn_call,            \* a direct call of one helper: its name and arguments
    fn_result           \* what that call returned

vars == <<pc, json_data, uploaded_files, now, fixed_tasks, free_blocks,
          floating_sessions, daily_usage_tracker, daily_class_tracker, idx,
          scheduled_p1, unscheduled_p1, scheduled_p2, unscheduled_final,
          final_optimized, result, output_ics, fn_call, fn_result>>

\* the variables of the direct helper calls
fn_vars == <<fn_call, fn_result>>

----------------------------------------------------------------------------
(* Program constants *)

MinutesPerDay == 1440
MinutesPerHour == 60
HorizonDays == 30
HorizonSlackDays == 14
CatchUpDays == 7
BufferMinutes == 15
BreakMinutes == 15
Phase1MaxHours == 8
Phase2MaxHours == 24
DemoWeekday == 0
DefaultWeekdayStart == 9
DefaultWeekdayEnd == 21
DefaultWeekendStart == 10
DefaultWeekendEnd == 20

(* Bound of the model: the number of assignments of one request. *)
MaxTasks == 2

----------------------------------------------------------------------------
(* Arithmetic helpers *)

Max(a, b) == IF a >= b THEN a ELSE b
Min(a, b) == IF a <= b THEN a ELSE b

\* datetime.date(): the calendar date of a timestamp
DateOf(t) == t \div MinutesPerDay

\* datetime.combine(date, time.min): midnight of a date
Midnight(d) == d * MinutesPerDay

\* date.weekday(): Monday is 0; today is DEMO_START_DATE = 2025-09-01, a Monday
Weekday(d) == (d + DemoWeekday) % 7

RECURSIVE SumSeq(_)
SumSeq(s) == IF s = <<>> THEN 0 ELSE Head(s) + SumSeq(Tail(s))

\* Python's ordering of key tuples: lexicographic
RECURSIVE TupleLess(_, _)
TupleLess(a, b) ==
    IF a = <<>> \/ b = <<>> THEN a = <<>> /\ b # <<>>
    ELSE IF Head(a) # Head(b) THEN Head(a) < Head(b)
    ELSE TupleLess(Tail(a), Tail(b))

\* sorted(seq, key=...): a stable sort.  SortPairs sorts <<key tuple, item>>
\* pairs by insertion from the left, an item going after every item whose key
\* is not greater than its own.
RECURSIVE InsertSorted(_, _)
InsertSorted(p, sorted) ==
    IF sorted = <<>> THEN <<p>>
    ELSE IF TupleLess(p[1], sorted[Len(sorted)][1])
         THEN InsertSorted(p, SubSeq(sorted, 1, Len(sorted) - 1)) \o <<sorted[Len(sorted)]>>
         ELSE sorted \o <<p>>

RECURSIVE SortPairs(_)
SortPairs(pairs) ==
    IF pairs = <<>> THEN <<>>
    ELSE InsertSorted(pairs[Len(pairs)], SortPairs(SubSeq(pairs, 1, Len(pairs) - 1)))

StableSort(s, keys) ==
    LET sorted == SortPairs([k \in 1..Len(s) |-> <<keys[k], s[k]>>])
    IN [k \in 1..Len(s) |-> sorted[k][2]]

\* sorted(blocks, key=lambda x: x[0])
SortByStart(blocks) == StableSort(blocks, [k \in 1..Len(blocks) |-> <<blocks[k][1]>>])

----------------------------------------------------------------------------
(* BLOCK 2: interval algebra *)

RECURSIVE MergeFold(_, _, _, _)
MergeFold(blocks, cur_start, cur_end, join_touching) ==
    IF blocks = <<>> THEN << <<cur_start, cur_end>> >>
    ELSE LET s == Head(blocks)[1]
             e == Head(blocks)[2]
         IN IF (join_touching /\ s <= cur_end) \/ (~join_touching /\ s < cur_end)
            THEN MergeFold(Tail(blocks), cur_start, Max(cur_end, e), join_touching)
            ELSE << <<cur_start, cur_end>> >>
                 \o MergeFold(Tail(blocks), s, e, join_touching)

\* faulty variant: the blocks are folded in the order given
merge_busy_blocks_Unsorted(blocks, join_touching) ==
    IF blocks = <<>> THEN <<>>
    ELSE MergeFold(Tail(blocks), blocks[1][1], blocks[1][2], join_touching)

merge_busy_blocks(blocks, join_touching) ==
    IF blocks = <<>> THEN <<>>
    ELSE LET sorted == SortByStart(blocks)
         IN MergeFold(Tail(sorted), sorted[1][1], sorted[1][2], join_touching)

\* the clipping loop shared by subtract_busy_from_window and build_free_blocks
RECURSIVE ClipTo(_, _, _)
ClipTo(busy_blocks, lo, hi) ==
    IF busy_blocks = <<>> THEN <<>>
    ELSE LET s == Head(busy_blocks)[1]
             e == Head(busy_blocks)[2]
             rest == ClipTo(Tail(busy_blocks), lo, hi)
         IN IF e <= lo \/ s >= hi THEN rest
            ELSE IF Max(s, lo) < Min(e, hi)
                 THEN << <<Max(s, lo), Min(e, hi)>> >> \o rest
                 ELSE rest

\* faulty variant: the cursor is not moved past a busy interval
RECURSIVE SubtractFold_KeepCur(_, _, _)
SubtractFold_KeepCur(relevant, cur, window_end) ==
    IF relevant = <<>>
    THEN IF cur < window_end THEN << <<cur, window_end>> >> ELSE <<>>
    ELSE (IF Head(relevant)[1] > cur THEN << <<cur, Head(relevant)[1]>> >> ELSE <<>>)
         \o SubtractFold_KeepCur(Tail(relevant), cur, window_end)

RECURSIVE SubtractFold(_, _, _)
SubtractFold(relevant, cur, window_end) ==
    IF relevant = <<>>
    THEN IF cur < window_end THEN << <<cur, window_end>> >> ELSE <<>>
    ELSE LET s == Head(relevant)[1]
             e == Head(relevant)[2]
         IN (IF s > cur THEN << <<cur, s>> >> ELSE <<>>)
            \o SubtractFold(Tail(relevant), Max(cur, e), window_end)

\* faulty variant: the clipped intervals are not sorted by start
subtract_busy_from_window_Unsorted(window_start, window_end, busy_blocks) ==
    SubtractFold(ClipTo(busy_blocks, window_start, window_end), window_start, window_end)

subtract_busy_from_window(window_start, window_end, busy_blocks) ==
    SubtractFold(SortByStart(ClipTo(busy_blocks, window_start, window_end)),
                 window_start, window_end)

\* faulty variant: the timeline is re-merged without being widened
add_buffer_to_busy_timeline_NoBuffer(busy_timeline, buffer_minutes) ==
    merge_busy_blocks(busy_timeline, TRUE)

add_buffer_to_busy_timeline(busy_timeline, buffer_minutes) ==
    merge_busy_blocks(
        [k \in 1..Len(busy_timeline) |->
            <<busy_timeline[k][1] - buffer_minutes, busy_timeline[k][2] + buffer_minutes>>],
        TRUE)

----------------------------------------------------------------------------
(* BLOCK 1: input parser *)

\* A raw clock value of the request: the key may be absent, and a value that
\* is present may or may not be something float() accepts.
Hour(n) == [given |-> TRUE, numeric |-> TRUE, value |-> n]
Missing == [given |-> FALSE, numeric |-> FALSE, value |-> 0]
Unparsable == [given |-> TRUE, numeric |-> FALSE, value |-> 0]

\* float(ww.get(key, default)) raises on a value that is no number
FloatRaises(raw) == raw.given /\ ~raw.numeric

\* float(ww.get(key, default)) when it returns
FloatOf(raw, default) == IF raw.given THEN raw.value ELSE default

\* lines 36-39 raise when one of the four clock values is no number
ParserRaises(ww) ==
    \/ FloatRaises(ww.weekday_start_hour)
    \/ FloatRaises(ww.weekday_end_hour)
    \/ FloatRaises(ww.weekend_start_hour)
    \/ FloatRaises(ww.weekend_end_hour)

\* lines 26-30: an unknown zone name falls back to America/New_York
KnownZones == {"America/New_York", "Europe/Paris"}

LocalTz(user_tz_str) ==
    IF user_tz_str \in KnownZones THEN user_tz_str ELSE "America/New_York"

\* lines 32-45: weekdays 0-4 get the weekday block, 5-6 the weekend block
WorkWindowsOf(ww) ==
    LET wd_start == FloatOf(ww.weekday_start_hour, DefaultWeekdayStart)
        wd_end == FloatOf(ww.weekday_end_hour, DefaultWeekdayEnd)
        we_start == FloatOf(ww.weekend_start_hour, DefaultWeekendStart)
        we_end == FloatOf(ww.weekend_end_hour, DefaultWeekendEnd)
    IN [wd \in 0..6 |->
          IF wd <= 4 THEN << <<wd_start, wd_end>> >> ELSE << <<we_start, we_end>> >>]

\* timedelta(hours=h) for a clock value in hours
HoursToMinutes(h) == h * MinutesPerHour

\* effort_hours * 60 in fifths of a minute (effort is in hundredths of an hour)
TotalFifths(time_spent_hours) == 3 * time_spent_hours

\* timedelta(hours=dur) of a fixed task, in minutes
EffortMinutes(time_spent_hours) == TotalFifths(time_spent_hours) \div 5

----------------------------------------------------------------------------
(* BLOCK 2: busy times and free blocks *)

\* parse_ics_bytes: the occurrences of one document inside the horizon, as
\* (start, end) pairs; a document that does not parse gives no records.
\* A document is [parses, normalizes, events]: parses says Calendar.from_ical
\* accepts the bytes, normalizes that lines 117-132 get through its events
\* without an exception (an event with no DTSTART, or a recurrence rule the
\* expansion rejects, stops them).
RECURSIVE EventRecords(_, _, _)
EventRecords(events, horizon_start, horizon_end) ==
    IF events = <<>> THEN <<>>
    ELSE LET ev == Head(events)
             rest == EventRecords(Tail(events), horizon_start, horizon_end)
         IN IF ev[2] <= horizon_start \/ ev[1] >= horizon_end THEN rest
            ELSE IF ev[2] <= ev[1] THEN rest
            ELSE <<ev>> \o rest

parse_ics_bytes(doc, horizon_start, horizon_end) ==
    IF ~doc.parses THEN <<>>
    ELSE SortByStart(EventRecords(doc.events, horizon_start, horizon_end))

RECURSIVE BusyOfFiles(_, _, _)
BusyOfFiles(files, horizon_start, horizon_end) ==
    IF files = <<>> THEN <<>>
    ELSE parse_ics_bytes(Head(files), horizon_start, horizon_end)
         \o BusyOfFiles(Tail(files), horizon_start, horizon_end)

\* faulty variant: the start of the day is the start of the horizon, not its own midnight
CurrentDayStart_NoMidnight(d, horizon_start, current_simulated_dt) ==
    IF d = DateOf(current_simulated_dt)
    THEN Max(horizon_start, current_simulated_dt)
    ELSE horizon_start

\* faulty variant: today is not clipped to the current time
CurrentDayStart_NoClip(d, horizon_start, current_simulated_dt) ==
    Max(Midnight(d), horizon_start)

\* lines 192-200: the part of date d inside the horizon and not before now
CurrentDayStart(d, horizon_start, current_simulated_dt) ==
    LET effective_start == Max(Midnight(d), horizon_start)
    IN IF d = DateOf(current_simulated_dt)
       THEN Max(effective_start, current_simulated_dt)
       ELSE effective_start

CurrentDayEnd(d, horizon_end) == Min(Midnight(d) + MinutesPerDay, horizon_end)

\* lines 216-224: the free blocks of the work windows of one date
RECURSIVE DayFree(_, _, _, _, _)
DayFree(day_work_windows, day_start_cal, current_day_start, current_day_end, day_busy) ==
    IF day_work_windows = <<>> THEN <<>>
    ELSE LET w == Head(day_work_windows)
             w_actual_start == Max(day_start_cal + HoursToMinutes(w[1]), current_day_start)
             w_actual_end == Min(day_start_cal + HoursToMinutes(w[2]), current_day_end)
         IN (IF w_actual_start < w_actual_end
             THEN subtract_busy_from_window(w_actual_start, w_actual_end, day_busy)
             ELSE <<>>)
            \o DayFree(Tail(day_work_windows), day_start_cal, current_day_start,
                       current_day_end, day_busy)

build_free_blocks(WORK_WINDOWS, BUSY_TIMELINE, horizon_start, horizon_end, current_simulated_dt) ==
    LET dates == {d \in DateOf(horizon_start)..DateOf(horizon_end) :
                    CurrentDayStart(d, horizon_start, current_simulated_dt)
                        < CurrentDayEnd(d, horizon_end)}
    IN [d \in dates |->
          LET current_day_start == CurrentDayStart(d, horizon_start, current_simulated_dt)
              current_day_end == CurrentDayEnd(d, horizon_end)
              day_busy == SortByStart(ClipTo(BUSY_TIMELINE, current_day_start, current_day_end))
          IN DayFree(WORK_WINDOWS[Weekday(d)], Midnight(d), current_day_start,
                     current_day_end, day_busy)]

----------------------------------------------------------------------------
(* BLOCK 3: session generator with the catch-up logic *)

\* re.search(r'\((.*?)\)', title): a title is [text, paren], paren being the
\* list of its parenthesised parts
extract_class_from_title(title) ==
    IF title.paren = <<>> THEN "General" ELSE title.paren[1]

\* faulty variant: a count below 1 is replaced by the number of 60-minute chunks
num_sessions_of_Chunked(row) ==
    IF row.sessions_needed >= 1 THEN row.sessions_needed
    ELSE Max(1, (EffortMinutes(row.time_spent_hours) + 59) \div 60)

\* max(1, int(explicit_sessions))
num_sessions_of(row) == Max(1, row.sessions_needed)

\* int(total_time_mins // num_sessions)
base_duration_of(row) == TotalFifths(row.time_spent_hours) \div (5 * num_sessions_of(row))

\* int(total_time_mins % num_sessions)
remainder_of(row) == (TotalFifths(row.time_spent_hours) % (5 * num_sessions_of(row))) \div 5

\* faulty variant: a task due today counts as overdue
is_overdue_of_Inclusive(row, current_date) == DateOf(row.due_dates) <= current_date

is_overdue_of(row, current_date) == DateOf(row.due_dates) < current_date

effective_due_of(row, current_date) ==
    IF is_overdue_of(row, current_date)
    THEN current_date + CatchUpDays
    ELSE Max(DateOf(row.due_dates), current_date)

\* the sessions of one row (lines 272-284); i counts from 0 as in the code
SessionsOfRow(row, current_date) ==
    [k \in 1..num_sessions_of(row) |->
        [assignment_id    |-> row.assignment_id,
         assignment_name  |-> row.assignment_name,
         class_name       |-> IF row.class_name = "General"
                              THEN extract_class_from_title(row.assignment_name)
                              ELSE row.class_name,
         duration_minutes |-> base_duration_of(row)
                              + (IF k - 1 < remainder_of(row) THEN 1 ELSE 0),
         due_date         |-> effective_due_of(row, current_date),
         full_due_dt      |-> row.due_dates,
         is_overdue       |-> is_overdue_of(row, current_date),
         i                |-> k - 1]]

RECURSIVE AllSessions(_, _)
AllSessions(rows, current_date) ==
    IF rows = <<>> THEN <<>>
    ELSE SessionsOfRow(Head(rows), current_date) \o AllSessions(Tail(rows), current_date)

\* the key of line 286: (is_overdue, full_due_dt), False ordered before True
SessionSortKey(s) == <<IF s.is_overdue THEN 1 ELSE 0, s.full_due_dt>>

generate_sessions_from_assignments(df_assignments, current_date) ==
    LET sessions == AllSessions(df_assignments, current_date)
    IN StableSort(sessions, [k \in 1..Len(sessions) |-> SessionSortKey(sessions[k])])

RECURSIVE SelectRows(_, _)
SelectRows(rows, fixed) ==
    IF rows = <<>> THEN <<>>
    ELSE (IF Head(rows).is_fixed_event = fixed THEN <<Head(rows)>> ELSE <<>>)
         \o SelectRows(Tail(rows), fixed)

\* lines 460-472: the output entry of a fixed row
FixedTaskOf(row) ==
    [assignment_name  |-> row.assignment_name,
     class_name       |-> row.class_name,
     start            |-> row.due_dates,
     end              |-> row.due_dates + EffortMinutes(row.time_spent_hours),
     duration_minutes |-> EffortMinutes(row.time_spent_hours),
     is_exam          |-> TRUE,
     row              |-> row.assignment_id]   \* ghost: the row the entry came from

----------------------------------------------------------------------------
(* BLOCK 4: scheduling engine *)

RECURSIVE SortedDates(_)
SortedDates(S) ==
    IF S = {} THEN <<>>
    ELSE LET m == CHOOSE x \in S : \A y \in S : x <= y
         IN <<m>> \o SortedDates(S \ {m})

\* faulty variant: the last block long enough is taken
RECURSIVE FirstFit_LastFit(_, _, _)
FirstFit_LastFit(day_blocks, duration, k) ==
    IF k > Len(day_blocks) THEN 0
    ELSE LET later == FirstFit_LastFit(day_blocks, duration, k + 1)
         IN IF later # 0 THEN later
            ELSE IF day_blocks[k][2] - day_blocks[k][1] >= duration THEN k ELSE 0

\* lines 327-330: index of the first block of the day long enough, 0 if none
RECURSIVE FirstFit(_, _, _)
FirstFit(day_blocks, duration, k) ==
    IF k > Len(day_blocks) THEN 0
    ELSE IF day_blocks[k][2] - day_blocks[k][1] >= duration THEN k
    ELSE FirstFit(day_blocks, duration, k + 1)

\* faulty variant: the check forgets the minutes of the session being placed
OverDailyCap_UsageOnly(usage, d, duration_mins, max_minutes) ==
    usage[d] > max_minutes

\* the hours check of line 319
OverDailyCap(usage, d, duration_mins, max_minutes) ==
    usage[d] + duration_mins > max_minutes

\* faulty variant: the date loop never stops at the due date
PastDue_Never(d, session) == FALSE

\* the deadline check of line 316
PastDue(d, session) == d > session.due_date

\* faulty variant: spacing is never enforced
SpacingBlocks_Off(classes, d, s_class, enforce_spacing) == FALSE

\* the spacing check of lines 322-324
SpacingBlocks(classes, d, s_class, enforce_spacing) ==
    enforce_spacing /\ s_class \in classes[d] /\ s_class # "General"

\* the date loop of lines 315-351: <<d, i>> of the placement, <<>> if none
RECURSIVE FindPlacement(_, _, _, _, _, _, _)
FindPlacement(dates, session, blocks_map, usage, classes, max_minutes, enforce_spacing) ==
    IF dates = <<>> THEN <<>>
    ELSE LET d == Head(dates)
             rest == FindPlacement(Tail(dates), session, blocks_map, usage, classes,
                                   max_minutes, enforce_spacing)
         IN IF PastDue(d, session) THEN <<>>
            ELSE IF OverDailyCap(usage, d, session.duration_minutes, max_minutes) THEN rest
            ELSE IF SpacingBlocks(classes, d, session.class_name, enforce_spacing) THEN rest
            ELSE LET k == FirstFit(blocks_map[d], session.duration_minutes, 1)
                 IN IF k = 0 THEN rest ELSE <<d, k>>

\* lines 334-337
PlacedRecord(session, d, start) ==
    [assignment_id    |-> session.assignment_id,
     assignment_name  |-> session.assignment_name,
     class_name       |-> session.class_name,
     duration_minutes |-> session.duration_minutes,
     due_date         |-> session.due_date,
     full_due_dt      |-> session.full_due_dt,
     is_overdue       |-> session.is_overdue,
     i                |-> session.i,
     start            |-> start,
     end              |-> start + session.duration_minutes,
     date             |-> d]

\* faulty variant: the block is left as it was after a placement
ShrinkBlocks_Unchanged(day_blocks, k, session_end, break_minutes) == day_blocks

\* lines 343-347: the block list of the day after a placement in block k
\* faulty variant: the block restarts at the end of the session, without a break
ShrinkBlocks_NoBreak(day_blocks, k, session_end, break_minutes) ==
    LET end == day_blocks[k][2]
    IN IF session_end < end
       THEN [day_blocks EXCEPT ![k] = <<session_end, end>>]
       ELSE SubSeq(day_blocks, 1, k - 1) \o SubSeq(day_blocks, k + 1, Len(day_blocks))

ShrinkBlocks(day_blocks, k, session_end, break_minutes) ==
    LET new_start == session_end + break_minutes
        end == day_blocks[k][2]
    IN IF new_start < end
       THEN [day_blocks EXCEPT ![k] = <<new_start, end>>]
       ELSE SubSeq(day_blocks, 1, k - 1) \o SubSeq(day_blocks, k + 1, Len(day_blocks))

----------------------------------------------------------------------------
(* BLOCK 4.5: merge blocks *)

RECURSIVE MergeScan(_, _)
MergeScan(current_block, rest) ==
    IF rest = <<>> THEN <<current_block>>
    ELSE LET next_block == Head(rest)
             same_assignment == current_block.assignment_name = next_block.assignment_name
             touching_time == current_block.end = next_block.start
         IN IF same_assignment /\ touching_time
            THEN MergeScan([current_block EXCEPT
                               !.end = next_block.end,
                               !.duration_minutes = @ + next_block.duration_minutes],
                           Tail(rest))
            ELSE <<current_block>> \o MergeScan(next_block, Tail(rest))

merge_contiguous_sessions(scheduled_sessions) ==
    IF scheduled_sessions = <<>> THEN <<>>
    ELSE LET sorted_sessions ==
                 StableSort(scheduled_sessions,
                            [k \in 1..Len(scheduled_sessions) |-> <<scheduled_sessions[k].start>>])
         IN MergeScan(Head(sorted_sessions), Tail(sorted_sessions))

----------------------------------------------------------------------------
(* BLOCK 5: output *)

\* lines 397-406: the deadline text of an entry: the timestamp of full_due_dt
\* to the minute, or "Unknown" (known = FALSE) for an entry without one; only
\* study sessions carry full_due_dt
DeadlineOf(task) ==
    IF "full_due_dt" \in DOMAIN task
    THEN [known |-> TRUE, stamp |-> task.full_due_dt]
    ELSE [known |-> FALSE, stamp |-> 0]

\* lines 389-423: one event per entry of the list it is given
create_output_ics(scheduled_tasks) ==
    [k \in 1..Len(scheduled_tasks) |->
        [summary     |-> <<IF "is_exam" \in DOMAIN scheduled_tasks[k] /\ scheduled_tasks[k].is_exam
                           THEN "EXAM: " ELSE "Do: ",
                           scheduled_tasks[k].assignment_name>>,
         dtstart     |-> scheduled_tasks[k].start,
         dtend       |-> scheduled_tasks[k].end,
         description |-> [class    |-> scheduled_tasks[k].class_name,
                          deadline |-> DeadlineOf(scheduled_tasks[k])]]]

----------------------------------------------------------------------------
(* The requests the model explores *)

Title(text, paren) == [text |-> text, paren |-> paren]

Task(name, class, due, hours100, sessions, fixed) ==
    [assignment_name |-> name, class_name |-> class, due_dates |-> due,
     time_spent_hours |-> hours100, sessions_needed |-> sessions,
     is_fixed_event |-> fixed]

\* due timestamps are minutes from midnight of today; effort is in hundredths
\* of an hour (200 is 2 h, 51 is 0.51 h = 30.6 min, 125 is the exam default)
TaskPool ==
    { Task(Title("Essay", <<>>), "General", 4 * 1440 + 1439, 200, 2, FALSE),
      Task(Title("Lab", <<"Bio">>), "General", -1440 + 600, 100, 3, FALSE),
      Task(Title("PSet", <<>>), "Math", 1439, 51, 4, FALSE),
      Task(Title("Project", <<>>), "General", 1440 + 720, 900, 2, FALSE),
      Task(Title("Exam", <<>>), "Math", 840, 125, 1, TRUE),
      Task(Title("Exam", <<>>), "Math", 915, 125, 1, TRUE),
      Task(Title("Reading", <<"Bio">>), "General", 17 * 1440 + 720, 100, 0, FALSE) }

Preferences(tz, wd_start, wd_end, we_start, we_end) ==
    [timezone |-> tz,
     work_windows |-> [weekday_start_hour |-> wd_start, weekday_end_hour |-> wd_end,
                       weekend_start_hour |-> we_start, weekend_end_hour |-> we_end]]

PreferencesPool ==
    { Preferences("", Missing, Missing, Missing, Missing),
      Preferences("Europe/Paris", Hour(13), Hour(16), Hour(0), Hour(24)),
      Preferences("Mars/Olympus", Hour(22), Hour(8), Hour(-1), Hour(26)),
      Preferences("America/New_York", Unparsable, Hour(21), Missing, Missing) }

Document(parses, normalizes, events) ==
    [parses |-> parses, normalizes |-> normalizes, events |-> events]

\* lines 117-132 are outside the try of lines 111-115
ExtractorRaises(files) ==
    \E k \in 1..Len(files) : files[k].parses /\ ~files[k].normalizes

FilesPool ==
    { <<>>,
      << Document(TRUE, TRUE, << <<630, 720>>, <<600, 660>>, <<1400, 1500>>, <<2000, 2000>> >>) >>,
      << Document(FALSE, TRUE, <<>>), Document(TRUE, TRUE, << <<-100, 40 * 1440>> >>) >>,
      << Document(TRUE, FALSE, << <<600, 660>> >>) >> }

\* datetime.now().time(): the minute of the day the run starts at
NowPool == {570, 1290}

\* the assignments of a request; app.py line 217 numbers them in order
AssignmentLists ==
    UNION {[1..n -> TaskPool] : n \in 0..MaxTasks}

WithIds(tasks) ==
    [k \in 1..Len(tasks) |->
        [assignment_id |-> k,
         assignment_name |-> tasks[k].assignment_name,
         class_name |-> tasks[k].class_name,
         due_dates |-> tasks[k].due_dates,
         time_spent_hours |-> tasks[k].time_spent_hours,
         sessions_needed |-> tasks[k].sessions_needed,
         is_fixed_event |-> tasks[k].is_fixed_event]]

----------------------------------------------------------------------------
(* process_schedule_request *)

today_date == DateOf(now)

horizon_start == Midnight(today_date)

RECURSIVE MaxDue(_)
MaxDue(rows) ==
    IF Len(rows) = 1 THEN rows[1].due_dates
    ELSE Max(rows[1].due_dates, MaxDue(Tail(rows)))

\* lines 446-450
HorizonEnd(df_assignments) ==
    LET base == horizon_start + HorizonDays * MinutesPerDay
    IN IF df_assignments = <<>> THEN base
       ELSE Max(base, MaxDue(df_assignments) + HorizonSlackDays * MinutesPerDay)

RECURSIVE FixedBusy(_)
FixedBusy(fixed) ==
    IF fixed = <<>> THEN <<>>
    ELSE << <<Head(fixed).start, Head(fixed).end>> >> \o FixedBusy(Tail(fixed))

\* lines 474-483: the buffered busy timeline
BufferedBusy(files, fixed, horizon_end) ==
    LET busy_blocks == BusyOfFiles(files, horizon_start, horizon_end) \o FixedBusy(fixed)
        merged_busy == merge_busy_blocks(busy_blocks, TRUE)
    IN add_buffer_to_busy_timeline(merged_busy, BufferMinutes)

Init ==
    /\ pc = "start"
    /\ \E tasks \in AssignmentLists, prefs \in PreferencesPool :
          json_data = [user_preferences |-> prefs, assignments |-> WithIds(tasks)]
    /\ uploaded_files \in FilesPool
    /\ now \in NowPool
    /\ fixed_tasks = <<>>
    /\ free_blocks = <<>>
    /\ floating_sessions = <<>>
    /\ daily_usage_tracker = <<>>
    /\ daily_class_tracker = <<>>
    /\ idx = 0
    /\ scheduled_p1 = <<>>
    /\ unscheduled_p1 = <<>>
    /\ scheduled_p2 = <<>>
    /\ unscheduled_final = <<>>
    /\ final_optimized = <<>>
    /\ result = <<>>
    /\ output_ics = <<>>
    /\ fn_call = [name |-> "none"]
    /\ fn_result = <<>>

\* lines 430-494: parse the request, build the free blocks and the sessions
Prepare ==
    /\ pc = "start"
    /\ ~ParserRaises(json_data.user_preferences.work_windows)
    /\ ~ExtractorRaises(uploaded_files)
    /\ LET df_assignments == json_data.assignments
           work_windows == WorkWindowsOf(json_data.user_preferences.work_windows)
           horizon_end == HorizonEnd(df_assignments)
           fixed_df == SelectRows(df_assignments, TRUE)
           floating_df == SelectRows(df_assignments, FALSE)
           fixed == [k \in 1..Len(fixed_df) |-> FixedTaskOf(fixed_df[k])]
           buffered_busy == BufferedBusy(uploaded_files, fixed, horizon_end)
           blocks == build_free_blocks(work_windows, buffered_busy, horizon_start,
                                       horizon_end, now)
       IN /\ fixed_tasks' = fixed
          /\ free_blocks' = blocks
          /\ floating_sessions' = generate_sessions_from_assignments(floating_df, today_date)
          /\ daily_usage_tracker' = [d \in DOMAIN blocks |-> 0]
          /\ daily_class_tracker' = [d \in DOMAIN blocks |-> {}]
    /\ idx' = 1
    /\ pc' = "phase1"
    /\ UNCHANGED <<json_data, uploaded_files, now, scheduled_p1, unscheduled_p1,
                   scheduled_p2, unscheduled_final, final_optimized, result>>
    /\ UNCHANGED <<output_ics, fn_vars>>

\* an exception of parse_request_inputs (lines 36-39) leaves
\* process_schedule_request: nothing is scheduled and nothing is returned
RaiseInParser ==
    /\ pc = "start"
    /\ ParserRaises(json_data.user_preferences.work_windows)
    /\ pc' = "raised_parser"
    /\ UNCHANGED <<json_data, uploaded_files, now, fixed_tasks, free_blocks,
                   floating_sessions, daily_usage_tracker, daily_class_tracker, idx,
                   scheduled_p1, unscheduled_p1, scheduled_p2, unscheduled_final,
                   final_optimized, result, output_ics, fn_vars>>

\* an exception of parse_ics_bytes (lines 117-132) leaves the run the same way
RaiseInExtractor ==
    /\ pc = "start"
    /\ ~ParserRaises(json_data.user_preferences.work_windows)
    /\ ExtractorRaises(uploaded_files)
    /\ pc' = "raised_extractor"
    /\ UNCHANGED <<json_data, uploaded_files, now, fixed_tasks, free_blocks,
                   floating_sessions, daily_usage_tracker, daily_class_tracker, idx,
                   scheduled_p1, unscheduled_p1, scheduled_p2, unscheduled_final,
                   final_optimized, result, output_ics, fn_vars>>

\* one iteration of the session loop of schedule_sessions_load_balanced
\* (lines 309-354): the updated <<free blocks, usage, classes, scheduled, unscheduled>>
\* faulty variant: a session that finds no place is dropped
ScheduleStep_DropUnplaced(session, blocks_map, usage, classes, scheduled, unscheduled, max_hours_per_day, break_minutes, enforce_spacing) ==
    LET max_minutes == max_hours_per_day * MinutesPerHour
        place == FindPlacement(SortedDates(DOMAIN blocks_map), session, blocks_map, usage,
                               classes, max_minutes, enforce_spacing)
    IN IF place = <<>>
       THEN <<blocks_map, usage, classes, scheduled, unscheduled>>
       ELSE LET d == place[1]
                k == place[2]
                rec == PlacedRecord(session, d, blocks_map[d][k][1])
            IN << [blocks_map EXCEPT ![d] = ShrinkBlocks(@, k, rec.end, break_minutes)],
                  [usage EXCEPT ![d] = @ + session.duration_minutes],
                  [classes EXCEPT ![d] = @ \cup {session.class_name}],
                  Append(scheduled, rec),
                  unscheduled >>

ScheduleStep(session, blocks_map, usage, classes, scheduled, unscheduled, max_hours_per_day, break_minutes, enforce_spacing) ==
    LET max_minutes == max_hours_per_day * MinutesPerHour
        place == FindPlacement(SortedDates(DOMAIN blocks_map), session, blocks_map, usage,
                               classes, max_minutes, enforce_spacing)
    IN IF place = <<>>
       THEN <<blocks_map, usage, classes, scheduled, Append(unscheduled, session)>>
       ELSE LET d == place[1]
                k == place[2]
                rec == PlacedRecord(session, d, blocks_map[d][k][1])
            IN << [blocks_map EXCEPT ![d] = ShrinkBlocks(@, k, rec.end, break_minutes)],
                  [usage EXCEPT ![d] = @ + session.duration_minutes],
                  [classes EXCEPT ![d] = @ \cup {session.class_name}],
                  Append(scheduled, rec),
                  unscheduled >>

\* PHASE 1 (lines 497-505): 8 h a day, class spacing enforced
Phase1Place ==
    /\ pc = "phase1"
    /\ idx <= Len(floating_sessions)
    /\ LET r == ScheduleStep(floating_sessions[idx], free_blocks, daily_usage_tracker,
                             daily_class_tracker, scheduled_p1, unscheduled_p1,
                             Phase1MaxHours, BreakMinutes, TRUE)
       IN /\ free_blocks' = r[1]
          /\ daily_usage_tracker' = r[2]
          /\ daily_class_tracker' = r[3]
          /\ scheduled_p1' = r[4]
          /\ unscheduled_p1' = r[5]
    /\ idx' = idx + 1
    /\ UNCHANGED <<pc, json_data, uploaded_files, now, fixed_tasks, floating_sessions,
                   scheduled_p2, unscheduled_final, final_optimized, result>>
    /\ UNCHANGED <<output_ics, fn_vars>>

\* faulty variant: phase 2 is never run
Phase1End_SkipPhase2 ==
    /\ pc = "phase1"
    /\ idx > Len(floating_sessions)
    /\ pc' = "merge"
    /\ idx' = 1
    /\ UNCHANGED <<json_data, uploaded_files, now, fixed_tasks, free_blocks,
                   floating_sessions, daily_usage_tracker, daily_class_tracker,
                   scheduled_p1, unscheduled_p1, scheduled_p2, unscheduled_final,
                   final_optimized, result>>
    /\ UNCHANGED <<output_ics, fn_vars>>

\* line 508: the failsafe pass runs only if phase 1 left something unplaced
Phase1End ==
    /\ pc = "phase1"
    /\ idx > Len(floating_sessions)
    /\ pc' = IF unscheduled_p1 # <<>> THEN "phase2" ELSE "merge"
    /\ idx' = 1
    /\ UNCHANGED <<json_data, uploaded_files, now, fixed_tasks, free_blocks,
                   floating_sessions, daily_usage_tracker, daily_class_tracker,
                   scheduled_p1, unscheduled_p1, scheduled_p2, unscheduled_final,
                   final_optimized, result>>
    /\ UNCHANGED <<output_ics, fn_vars>>

\* faulty variant: the failsafe pass keeps the spacing rule
Phase2Place_Spaced ==
    /\ pc = "phase2"
    /\ idx <= Len(unscheduled_p1)
    /\ LET r == ScheduleStep(unscheduled_p1[idx], free_blocks, daily_usage_tracker,
                             daily_class_tracker, scheduled_p2, unscheduled_final,
                             Phase2MaxHours, BreakMinutes, TRUE)
       IN /\ free_blocks' = r[1]
          /\ daily_usage_tracker' = r[2]
          /\ daily_class_tracker' = r[3]
          /\ scheduled_p2' = r[4]
          /\ unscheduled_final' = r[5]
    /\ idx' = idx + 1
    /\ UNCHANGED <<pc, json_data, uploaded_files, now, fixed_tasks, floating_sessions,
                   scheduled_p1, unscheduled_p1, final_optimized, result>>
    /\ UNCHANGED <<output_ics, fn_vars>>

\* faulty variant: the failsafe pass keeps the 8 h cap
Phase2Place_Capped ==
    /\ pc = "phase2"
    /\ idx <= Len(unscheduled_p1)
    /\ LET r == ScheduleStep(unscheduled_p1[idx], free_blocks, daily_usage_tracker,
                             daily_class_tracker, scheduled_p2, unscheduled_final,
                             Phase1MaxHours, BreakMinutes, FALSE)
       IN /\ free_blocks' = r[1]
          /\ daily_usage_tracker' = r[2]
          /\ daily_class_tracker' = r[3]
          /\ scheduled_p2' = r[4]
          /\ unscheduled_final' = r[5]
    /\ idx' = idx + 1
    /\ UNCHANGED <<pc, json_data, uploaded_files, now, fixed_tasks, floating_sessions,
                   scheduled_p1, unscheduled_p1, final_optimized, result>>
    /\ UNCHANGED <<output_ics, fn_vars>>

\* PHASE 2 (lines 510-518): 24 h a day, no spacing, over what phase 1 left
Phase2Place ==
    /\ pc = "phase2"
    /\ idx <= Len(unscheduled_p1)
    /\ LET r == ScheduleStep(unscheduled_p1[idx], free_blocks, daily_usage_tracker,
                             daily_class_tracker, scheduled_p2, unscheduled_final,
                             Phase2MaxHours, BreakMinutes, FALSE)
       IN /\ free_blocks' = r[1]
          /\ daily_usage_tracker' = r[2]
          /\ daily_class_tracker' = r[3]
          /\ scheduled_p2' = r[4]
          /\ unscheduled_final' = r[5]
    /\ idx' = idx + 1
    /\ UNCHANGED <<pc, json_data, uploaded_files, now, fixed_tasks, floating_sessions,
                   scheduled_p1, unscheduled_p1, final_optimized, result>>
    /\ UNCHANGED <<output_ics, fn_vars>>

Phase2End ==
    /\ pc = "phase2"
    /\ idx > Len(unscheduled_p1)
    /\ pc' = "merge"
    /\ UNCHANGED <<json_data, uploaded_files, now, fixed_tasks, free_blocks,
                   floating_sessions, daily_usage_tracker, daily_class_tracker, idx,
                   scheduled_p1, unscheduled_p1, scheduled_p2, unscheduled_final,
                   final_optimized, result>>
    /\ UNCHANGED <<output_ics, fn_vars>>

\* lines 523-536: merge, write the document, return the counts
Finish ==
    /\ pc = "merge"
    /\ LET all_scheduled == fixed_tasks \o scheduled_p1 \o scheduled_p2
       IN /\ final_optimized' = merge_contiguous_sessions(all_scheduled)
          /\ output_ics' = create_output_ics(merge_contiguous_sessions(all_scheduled))
          /\ result' = [status |-> "success",
                        scheduled_count |-> Len(all_scheduled),
                        unscheduled_count |-> Len(unscheduled_final)]
    /\ pc' = "done"
    /\ UNCHANGED <<json_data, uploaded_files, now, fixed_tasks, free_blocks,
                   floating_sessions, daily_usage_tracker, daily_class_tracker, idx,
                   scheduled_p1, unscheduled_p1, scheduled_p2, unscheduled_final>>
    /\ UNCHANGED fn_vars

Next ==
    \/ Prepare
    \/ RaiseInParser
    \/ RaiseInExtractor
    \/ Phase1Place
    \/ Phase1End
    \/ Phase2Place
    \/ Phase2End
    \/ Finish

Spec == Init /\ [][Next]_vars

----------------------------------------------------------------------------
(* Direct calls of the pure helpers: one call per behaviour, its arguments
   drawn from bounded sets *)

MaxPoint == 4
MaxBusy == 2
MaxBlocks == 3
MaxEffort == 200
MaxSessions == 3
ManySessions == 31

\* instants 0..MaxPoint stand for datetimes
Points == 0..MaxPoint

\* (start, end) pairs with start <= end
Intervals == { p \in Points \X Points : p[1] <= p[2] }

IntervalLists(n) == UNION { [1..k -> Intervals] : k \in 0..n }

SubtractCalls ==
    { [name |-> "subtract_busy_from_window", window_start |-> w[1], window_end |-> w[2],
       busy_blocks |-> b] : w \in { p \in Intervals : p[1] < p[2] }, b \in IntervalLists(MaxBusy) }

MergeCalls ==
    { [name |-> "merge_busy_blocks", blocks |-> b] : b \in IntervalLists(MaxBlocks) }

\* one floating row: effort in hundredths of an hour from 0, a session count
\* from -1 or one larger than the minutes of half an hour, due yesterday,
\* today or tomorrow; the current date is today
SessionCalls ==
    { [name |-> "generate_sessions_from_assignments",
       row |-> [assignment_id |-> 1, assignment_name |-> Title("Essay", <<>>),
                class_name |-> "General", due_dates |-> due,
                time_spent_hours |-> h, sessions_needed |-> n, is_fixed_event |-> FALSE],
       current_date |-> 0] :
      due \in {-MinutesPerDay + 600, 600, MinutesPerDay + 600},
      h \in 0..MaxEffort, n \in (-1..MaxSessions) \cup {ManySessions} }

FnCalls == SubtractCalls \cup MergeCalls \cup SessionCalls

InitFn ==
    /\ pc = "call"
    /\ fn_call \in FnCalls
    /\ fn_result = <<>>
    /\ json_data = [user_preferences |-> Preferences("", Missing, Missing, Missing, Missing),
                    assignments |-> <<>>]
    /\ uploaded_files = <<>>
    /\ now = 0
    /\ fixed_tasks = <<>>
    /\ free_blocks = <<>>
    /\ floating_sessions = <<>>
    /\ daily_usage_tracker = <<>>
    /\ daily_class_tracker = <<>>
    /\ idx = 0
    /\ scheduled_p1 = <<>>
    /\ unscheduled_p1 = <<>>
    /\ scheduled_p2 = <<>>
    /\ unscheduled_final = <<>>
    /\ final_optimized = <<>>
    /\ result = <<>>
    /\ output_ics = <<>>

\* what a direct call leaves alone
FnFrame ==
    UNCHANGED <<json_data, uploaded_files, now, fixed_tasks, free_blocks,
                floating_sessions, daily_usage_tracker, daily_class_tracker, idx,
                scheduled_p1, unscheduled_p1, scheduled_p2, unscheduled_final,
                final_optimized, result, output_ics, fn_call>>

ApplySubtract ==
    /\ pc = "call"
    /\ fn_call.name = "subtract_busy_from_window"
    /\ fn_result' = subtract_busy_from_window(fn_call.window_start, fn_call.window_end,
                                              fn_call.busy_blocks)
    /\ pc' = "returned"
    /\ FnFrame

\* join_touching keeps its default, as at every call site
ApplyMerge ==
    /\ pc = "call"
    /\ fn_call.name = "merge_busy_blocks"
    /\ fn_result' = merge_busy_blocks(fn_call.blocks, TRUE)
    /\ pc' = "returned"
    /\ FnFrame

ApplySessions ==
    /\ pc = "call"
    /\ fn_call.name = "generate_sessions_from_assignments"
    /\ fn_result' = generate_sessions_from_assignments(<<fn_call.row>>, fn_call.current_date)
    /\ pc' = "returned"
    /\ FnFrame

NextFn ==
    \/ ApplySubtract
    \/ ApplyMerge
    \/ ApplySessions

SpecFn == InitFn /\ [][NextFn]_vars

\* a direct call of the named helper has returned
Returned(name) == pc = "returned" /\ fn_call.name = name

----------------------------------------------------------------------------
(* Vocabulary of the properties *)

Placed == scheduled_p1 \o scheduled_p2

Overlap(a, b) == a.start < b.end /\ b.start < a.end

RowOf(s) == json_data.assignments[s.assignment_id]

FloatingRows == {k \in 1..Len(json_data.assignments) :
                    ~json_data.assignments[k].is_fixed_event}

FixedRows == {k \in 1..Len(json_data.assignments) :
                    json_data.assignments[k].is_fixed_event}

MinutesOn(scheduled, d) ==
    SumSeq([k \in 1..Len(scheduled) |->
               IF scheduled[k].date = d THEN scheduled[k].duration_minutes ELSE 0])

\* the busy intervals of the run: imported commitments and fixed tasks
BusyIntervals ==
    LET busy == BusyOfFiles(uploaded_files, horizon_start, HorizonEnd(json_data.assignments))
                \o FixedBusy(fixed_tasks)
    IN {busy[k] : k \in 1..Len(busy)}

\* the work window of date d, in minutes
WindowOf(d) ==
    LET w == WorkWindowsOf(json_data.user_preferences.work_windows)[Weekday(d)][1]
    IN <<Midnight(d) + HoursToMinutes(w[1]), Midnight(d) + HoursToMinutes(w[2])>>

----------------------------------------------------------------------------
(* C1: no two scheduled study sessions placed on the same date, by phase 1
   or phase 2, overlap in time. *)
C1_NoOverlapOnDate ==
    \A a, b \in 1..Len(Placed) :
        (a < b /\ Placed[a].date = Placed[b].date) => ~Overlap(Placed[a], Placed[b])

\* both phases have run and a phase-2 session shares its date with a phase-1 session
C1_Witness ==
    /\ pc = "done"
    /\ \E a \in 1..Len(scheduled_p1), b \in 1..Len(scheduled_p2) :
          scheduled_p1[a].date = scheduled_p2[b].date

(* C2: every scheduled session is placed on a date not later than the
   effective due date of its task (the original due date, or today + 7 days
   for an overdue task), so it ends by the end of that date. *)
C2_PlacedByDueDate ==
    \A k \in 1..Len(Placed) :
        LET s == Placed[k]
            original_due == DateOf(RowOf(s).due_dates)
            effective == IF original_due < today_date
                         THEN today_date + CatchUpDays ELSE original_due
        IN /\ s.due_date = effective
           /\ s.date <= effective
           /\ s.end <= Midnight(effective + 1)

\* a session placed on its due date itself while later dates still have room for it,
\* and an overdue session placed after today
C2_Witness ==
    /\ pc = "done"
    /\ \E k \in 1..Len(Placed) :
          /\ Placed[k].date = Placed[k].due_date
          /\ \E d \in DOMAIN free_blocks :
                d > Placed[k].due_date
                /\ FirstFit(free_blocks[d], Placed[k].duration_minutes, 1) > 0
    /\ \E k \in 1..Len(Placed) : Placed[k].is_overdue /\ Placed[k].date > today_date

(* C3: at the end of phase 1 (and at every point of it) the sessions phase 1
   placed on one date sum to at most 480 minutes. *)
C3_Phase1DailyCap ==
    \A d \in DOMAIN free_blocks :
        MinutesOn(scheduled_p1, d) <= Phase1MaxHours * MinutesPerHour

\* phase 1 has ended, and a date it filled holds more than 8 h once phase 2 has added to it
C3_Witness ==
    /\ pc = "done"
    /\ \E d \in DOMAIN free_blocks :
          /\ MinutesOn(scheduled_p1, d) > 0
          /\ MinutesOn(scheduled_p1, d) + MinutesOn(scheduled_p2, d)
                > Phase1MaxHours * MinutesPerHour

(* C4: every placed session starts and ends within the calendar date
   recorded as its date. *)
C4_WithinCalendarDate ==
    \A k \in 1..Len(Placed) :
        /\ Midnight(Placed[k].date) <= Placed[k].start
        /\ Placed[k].end <= Midnight(Placed[k].date + 1)

\* a phase-2 session on a date whose configured window reaches outside the day
C4_Witness ==
    \E k \in 1..Len(scheduled_p2) :
        LET w == WindowOf(scheduled_p2[k].date)
        IN /\ w[1] < Midnight(scheduled_p2[k].date)
           /\ w[2] > Midnight(scheduled_p2[k].date + 1)

(* C5: in the list generate_sessions_from_assignments returns, every overdue
   session precedes every non-overdue session, and each group is in
   ascending order of original due timestamp. *)
C5_OverdueFirst ==
    \A a, b \in 1..Len(floating_sessions) :
        a < b =>
            /\ ~(~floating_sessions[a].is_overdue /\ floating_sessions[b].is_overdue)
            /\ (floating_sessions[a].is_overdue = floating_sessions[b].is_overdue
                   => floating_sessions[a].full_due_dt <= floating_sessions[b].full_due_dt)

(* C6: the sessions derived from a floating task sum to round(effort_hours*60)
   minutes and no two of them differ by more than one minute. *)
RoundedMinutes(hours100) == (TotalFifths(hours100) + 2) \div 5

SessionsOfTask(r) ==
    {k \in 1..Len(floating_sessions) : floating_sessions[k].assignment_id = r}

DerivedMinutes(r) ==
    SumSeq([k \in 1..Len(floating_sessions) |->
               IF floating_sessions[k].assignment_id = r
               THEN floating_sessions[k].duration_minutes ELSE 0])

C6_DurationsSumToRoundedEffort ==
    pc # "start" =>
        \A r \in FloatingRows :
            /\ DerivedMinutes(r) = RoundedMinutes(json_data.assignments[r].time_spent_hours)
            /\ \A a, b \in SessionsOfTask(r) :
                  floating_sessions[a].duration_minutes
                      - floating_sessions[b].duration_minutes <= 1

(* C7: no scheduled study session intersects a busy interval (imported
   commitment or fixed task) widened by 15 minutes on both ends. *)
C7_ClearOfBufferedBusy ==
    \A k \in 1..Len(Placed) : \A b \in BusyIntervals :
        ~(Placed[k].start < b[2] + BufferMinutes /\ b[1] - BufferMinutes < Placed[k].end)

\* a session starts exactly 15 minutes after a commitment, and another is placed
\* on the day of the fixed exam of 14:00-15:15
C7_Witness ==
    /\ \E k \in 1..Len(Placed) : \E b \in BusyIntervals :
          Placed[k].start = b[2] + BufferMinutes
    /\ \E k \in 1..Len(Placed) : \E f \in 1..Len(fixed_tasks) :
          /\ fixed_tasks[f].start = 840 /\ fixed_tasks[f].end = 915
          /\ Placed[k].date = DateOf(fixed_tasks[f].start)

(* C8: every fixed task has exactly one entry in the final output, with
   start = due_at and end = due_at + effort_hours. *)
C8_FixedCarriedThrough ==
    pc = "done" =>
        \A r \in FixedRows :
            LET row == json_data.assignments[r]
            IN Cardinality({k \in 1..Len(final_optimized) :
                    /\ "is_exam" \in DOMAIN final_optimized[k]
                    /\ final_optimized[k].row = r
                    /\ final_optimized[k].start = row.due_dates
                    /\ final_optimized[k].end
                          = row.due_dates + EffortMinutes(row.time_spent_hours)}) = 1

(* C9: a task due on a date strictly before today is overdue with effective
   due date today + 7 days; a task due today or later is not overdue and
   keeps its own due date. *)
C9_CatchUpPolicy ==
    \A k \in 1..Len(floating_sessions) :
        LET s == floating_sessions[k]
            due == RowOf(s).due_dates
        IN /\ due < Midnight(today_date)
                => s.is_overdue /\ s.due_date = today_date + CatchUpDays
           /\ due >= Midnight(today_date)
                => ~s.is_overdue /\ s.due_date = DateOf(due)

\* an overdue task and a task due later today, after the run's current time
C9_Witness ==
    /\ \E k \in 1..Len(floating_sessions) : floating_sessions[k].is_overdue
    /\ \E k \in 1..Len(floating_sessions) :
          /\ DateOf(floating_sessions[k].full_due_dt) = today_date
          /\ ~floating_sessions[k].is_overdue

(* C10: on every date the free blocks are non-empty intervals, sorted by
   start, pairwise non-overlapping and inside that day's work window, as
   built and after every placement. *)
C10_FreeBlocksWellFormed ==
    pc # "start" =>
        \A d \in DOMAIN free_blocks :
            LET blocks == free_blocks[d]
            IN /\ \A k \in 1..Len(blocks) :
                     /\ blocks[k][1] < blocks[k][2]
                     /\ WindowOf(d)[1] <= blocks[k][1]
                     /\ blocks[k][2] <= WindowOf(d)[2]
               /\ \A k, l \in 1..Len(blocks) : k < l => blocks[k][2] <= blocks[l][1]

\* a date cut into several blocks by commitments, one of them shrunk by a placement
C10_Witness ==
    \E d \in DOMAIN free_blocks :
        /\ Len(free_blocks[d]) >= 2
        /\ \E k \in 1..Len(Placed) :
              /\ Placed[k].date = d
              /\ \E j \in 1..Len(free_blocks[d]) :
                    free_blocks[d][j][1] = Placed[k].end + BreakMinutes

----------------------------------------------------------------------------
(* Claims about the interval helpers, over direct calls *)

\* the unit of time [t, t + 1) lies inside one of the blocks
Covers(blocks, t) ==
    \E k \in 1..Len(blocks) : blocks[k][1] <= t /\ t + 1 <= blocks[k][2]

\* C11: subtract_busy_from_window(window, busy) returns exactly the ordered
\* maximal sub-intervals of the window that no busy interval covers: every
\* returned interval is non-empty and inside the window, consecutive ones are
\* in order with a gap between them, and a unit of time of the window lies in
\* a returned interval exactly when it lies in no busy interval; an empty busy
\* list gives back the window, and the window itself as busy gives nothing.
C11_SubtractExact ==
    Returned("subtract_busy_from_window") =>
        LET ws == fn_call.window_start
            we == fn_call.window_end
            busy == fn_call.busy_blocks
            free == fn_result
        IN /\ \A k \in 1..Len(free) :
                 ws <= free[k][1] /\ free[k][1] < free[k][2] /\ free[k][2] <= we
           /\ \A k \in 1..(Len(free) - 1) : free[k][2] < free[k + 1][1]
           /\ \A u \in ws..(we - 1) : Covers(free, u) <=> ~Covers(busy, u)
           /\ (busy = <<>> => free = << <<ws, we>> >>)
           /\ (busy = << <<ws, we>> >> => free = <<>>)

\* two busy intervals given out of order cut the window into two free pieces
C11_Witness ==
    /\ Returned("subtract_busy_from_window")
    /\ Len(fn_call.busy_blocks) = 2
    /\ fn_call.busy_blocks[2][1] < fn_call.busy_blocks[1][1]
    /\ Len(fn_result) = 2

\* the rearrangements of a list of n items
Perms(n) == { f \in [1..n -> 1..n] : \A i \in 1..n, j \in 1..n : i # j => f[i] # f[j] }

\* C12: merge_busy_blocks is idempotent and order-independent: for every list
\* X of intervals (start <= end) and every permutation P of X,
\* merge(merge(P)) = merge(X), and merge(X) is sorted and non-overlapping.
C12_MergeIdempotentAnyOrder ==
    Returned("merge_busy_blocks") =>
        LET X == fn_call.blocks
            merged == fn_result
        IN /\ \A f \in Perms(Len(X)) :
                 LET P == [k \in 1..Len(X) |-> X[f[k]]]
                 IN merge_busy_blocks(merge_busy_blocks(P, TRUE), TRUE) = merged
           /\ \A k \in 1..(Len(merged) - 1) :
                 /\ merged[k][1] < merged[k + 1][1]
                 /\ merged[k][2] <= merged[k + 1][1]

\* three blocks given out of order, two of which merge
C12_Witness ==
    /\ Returned("merge_busy_blocks")
    /\ Len(fn_call.blocks) = 3
    /\ fn_call.blocks[3][1] < fn_call.blocks[1][1]
    /\ Len(fn_result) = 2

----------------------------------------------------------------------------
(* Claims about the outcome of a run *)

\* the free blocks the run starts from (lines 474-494), recomputed from the request
FreeBlocksOfRun ==
    LET horizon_end == HorizonEnd(json_data.assignments)
        fixed_df == SelectRows(json_data.assignments, TRUE)
        fixed == [k \in 1..Len(fixed_df) |-> FixedTaskOf(fixed_df[k])]
    IN build_free_blocks(WorkWindowsOf(json_data.user_preferences.work_windows),
                         BufferedBusy(uploaded_files, fixed, horizon_end),
                         horizon_start, horizon_end, now)

NoFreeBlockAnywhere == \A d \in DOMAIN FreeBlocksOfRun : FreeBlocksOfRun[d] = <<>>

\* C13: when no date of the horizon has a free block, the finished run has
\* scheduled no floating session, its final unscheduled list is the whole list
\* of floating sessions, and it reports success with that count.
C13_NoFreeBlockAllUnscheduled ==
    (pc = "done" /\ NoFreeBlockAnywhere) =>
        /\ Placed = <<>>
        /\ unscheduled_final = floating_sessions
        /\ result.status = "success"
        /\ result.unscheduled_count = Len(floating_sessions)

\* a finished run with floating sessions and no free block
C13_Witness ==
    /\ pc = "done"
    /\ NoFreeBlockAnywhere
    /\ floating_sessions # <<>>

\* how often the session (assignment_id, i) occurs in a list
Occurrences(list, s) ==
    Cardinality({k \in 1..Len(list) :
                    list[k].assignment_id = s.assignment_id /\ list[k].i = s.i})

\* C14: in a finished run every derived floating session is in exactly one of
\* the phase-1 schedule, the phase-2 schedule and the final unscheduled list,
\* these three hold nothing else, and scheduled_count + unscheduled_count =
\* number of fixed tasks + number of derived sessions.
C14_SessionsPartitioned ==
    pc = "done" =>
        /\ \A k \in 1..Len(floating_sessions) :
              Occurrences(scheduled_p1, floating_sessions[k])
              + Occurrences(scheduled_p2, floating_sessions[k])
              + Occurrences(unscheduled_final, floating_sessions[k]) = 1
        /\ Len(scheduled_p1) + Len(scheduled_p2) + Len(unscheduled_final)
              = Len(floating_sessions)
        /\ result.scheduled_count + result.unscheduled_count
              = Cardinality(FixedRows) + Len(floating_sessions)

\* a finished run that used all three outcomes
C14_Witness ==
    /\ pc = "done"
    /\ scheduled_p1 # <<>>
    /\ scheduled_p2 # <<>>
    /\ unscheduled_final # <<>>

\* C15: the calendar document of a finished run has as many events as the
\* scheduled_count the result reports. The document is written from the
\* merged list while the count is taken before the merge, so this fails as
\* soon as two entries are merged.
C15_EventsEqualScheduledCount ==
    pc = "done" => Len(output_ics) = result.scheduled_count

----------------------------------------------------------------------------
(* Claims about bad input *)

\* the clock value the claim expects: the default for a missing or unparsable one
ClockOrDefault(raw, default) == IF raw.given /\ raw.numeric THEN raw.value ELSE default

\* C16: the work-window normalizer never raises: whatever the timezone string
\* and the clock values, missing and unparsable ones included, it returns a
\* window set with the weekday window on weekdays 0-4 and the weekend window
\* on 5-6, a missing or unparsable value replaced by its default (9, 21, 10,
\* 20). float() of lines 36-39 raises on an unparsable value.
C16_NormalizerNeverRaises ==
    LET ww == json_data.user_preferences.work_windows
        weekday == <<ClockOrDefault(ww.weekday_start_hour, DefaultWeekdayStart),
                     ClockOrDefault(ww.weekday_end_hour, DefaultWeekdayEnd)>>
        weekend == <<ClockOrDefault(ww.weekend_start_hour, DefaultWeekendStart),
                     ClockOrDefault(ww.weekend_end_hour, DefaultWeekendEnd)>>
    IN /\ pc # "raised_parser"
       /\ pc \notin {"start", "raised_parser"} =>
             \A wd \in 0..6 :
                 WorkWindowsOf(ww)[wd] = << IF wd <= 4 THEN weekday ELSE weekend >>

\* C17: a calendar document that does not parse, or that holds an event that
\* cannot be normalized, contributes an empty busy list and never aborts the
\* run. Only Calendar.from_ical is inside the try: an exception of lines
\* 117-132 leaves the run.
C17_BadDocumentNeverAborts ==
    /\ \A k \in 1..Len(uploaded_files) :
          ~uploaded_files[k].parses =>
              parse_ics_bytes(uploaded_files[k], horizon_start,
                              HorizonEnd(json_data.assignments)) = <<>>
    /\ pc # "raised_extractor"

\* the row the claim says is scheduled: effort at least 0.5 h, at least 1 session
ClampedRow(row) ==
    [row EXCEPT !.time_spent_hours = Max(50, @), !.sessions_needed = Max(1, @)]

\* C18: a task with effort_hours < 0.5 is split as if effort_hours = 0.5 and
\* a task with session_count < 1 as if session_count = 1. The session count
\* is clamped (line 252), the effort is not.
C18_InvalidFieldsClamped ==
    Returned("generate_sessions_from_assignments") =>
        fn_result = generate_sessions_from_assignments(<<ClampedRow(fn_call.row)>>,
                                                       fn_call.current_date)

----------------------------------------------------------------------------
(* Claims about the clock *)

\* schedule_sessions_load_balanced (lines 291-356) as one fold over the sessions
RECURSIVE RunPhase(_, _, _, _, _)
RunPhase(sessions, r, max_hours_per_day, break_minutes, enforce_spacing) ==
    IF sessions = <<>> THEN r
    ELSE RunPhase(Tail(sessions),
                  ScheduleStep(Head(sessions), r[1], r[2], r[3], r[4], r[5],
                               max_hours_per_day, break_minutes, enforce_spacing),
                  max_hours_per_day, break_minutes, enforce_spacing)

\* process_schedule_request on the request of this run when the system clock
\* reads n (a time of the demo date): the phase-1 schedule, the phase-2
\* schedule, the final unscheduled list and the document
RunOutcome(n) ==
    LET df_assignments == json_data.assignments
        horizon_end == HorizonEnd(df_assignments)
        fixed_df == SelectRows(df_assignments, TRUE)
        floating_df == SelectRows(df_assignments, FALSE)
        fixed == [k \in 1..Len(fixed_df) |-> FixedTaskOf(fixed_df[k])]
        blocks == build_free_blocks(WorkWindowsOf(json_data.user_preferences.work_windows),
                                    BufferedBusy(uploaded_files, fixed, horizon_end),
                                    horizon_start, horizon_end, n)
        sessions == generate_sessions_from_assignments(floating_df, today_date)
        p1 == RunPhase(sessions,
                       <<blocks, [d \in DOMAIN blocks |-> 0], [d \in DOMAIN blocks |-> {}],
                         <<>>, <<>>>>,
                       Phase1MaxHours, BreakMinutes, TRUE)
        p2 == IF p1[5] # <<>>
              THEN RunPhase(p1[5], <<p1[1], p1[2], p1[3], <<>>, <<>>>>,
                            Phase2MaxHours, BreakMinutes, FALSE)
              ELSE <<p1[1], p1[2], p1[3], <<>>, <<>>>>
    IN <<p1[4], p2[4], p2[5],
         create_output_ics(merge_contiguous_sessions(fixed \o p1[4] \o p2[4]))>>

\* C19: the run is deterministic in its request: with the same tasks, busy
\* documents and preferences it produces the same scheduled sessions,
\* unscheduled sessions and document whatever the system clock reads. The
\* request carries no 'now'; line 440 takes the time of day from the clock.
C19_OutcomeIndependentOfClock ==
    pc = "done" =>
        \A n \in NowPool :
            RunOutcome(n) = <<scheduled_p1, scheduled_p2, unscheduled_final, output_ics>>

----------------------------------------------------------------------------
(* Claims about the number of sessions *)

\* m minutes in 60-minute chunks, rounded up
ChunksOf(m) == (m + 59) \div 60

\* C20 as stated: the number of sessions derived for a floating task is the
\* provided session_count when that is >= 1, and otherwise
\* ceil(total_minutes / 60) with a minimum of 1.
C20_CountProvidedOrChunked ==
    Returned("generate_sessions_from_assignments") =>
        Len(fn_result) =
            IF fn_call.row.sessions_needed >= 1 THEN fn_call.row.sessions_needed
            ELSE Max(1, ChunksOf(RoundedMinutes(fn_call.row.time_spent_hours)))

\* C20: the number of sessions derived for a floating task is the provided
\* session_count when that is >= 1, and otherwise 1, whatever the effort.
C20_CountProvidedOrOne ==
    Returned("generate_sessions_from_assignments") =>
        Len(fn_result) =
            IF fn_call.row.sessions_needed >= 1 THEN fn_call.row.sessions_needed ELSE 1

\* a task of more than an hour with no usable count is kept in one session
C20_Witness ==
    /\ Returned("generate_sessions_from_assignments")
    /\ fn_call.row.sessions_needed < 1
    /\ RoundedMinutes(fn_call.row.time_spent_hours) > 60
    /\ Len(fn_result) = 1

----------------------------------------------------------------------------
(* Claims about the document and about placement *)

\* the row of the request an output entry came from
TaskOf(entry) == IF "row" \in DOMAIN entry THEN entry.row ELSE entry.assignment_id

\* C21: every event of the document, an 'EXAM:' event of a fixed task as well
\* as a 'Do:' study session, carries in its description the original due
\* timestamp of its task. A fixed entry has no full_due_dt (lines 463-471), so
\* its event reads "Unknown".
C21_EventsCarryOriginalDue ==
    pc = "done" =>
        \A k \in 1..Len(output_ics) :
            /\ output_ics[k].description.deadline.known
            /\ output_ics[k].description.deadline.stamp
                  = json_data.assignments[TaskOf(final_optimized[k])].due_dates

\* C22: no date holds two sessions placed by phase 1 with the same class
\* label, unless that label is 'General'.
C22_Phase1Spacing ==
    \A a \in 1..Len(scheduled_p1), b \in 1..Len(scheduled_p1) :
        (a # b /\ scheduled_p1[a].date = scheduled_p1[b].date
               /\ scheduled_p1[a].class_name = scheduled_p1[b].class_name)
            => scheduled_p1[a].class_name = "General"

\* phase 1 is over, it spread two sessions of one labelled class over two
\* dates and put two 'General' sessions on one date
C22_Witness ==
    /\ pc \in {"phase2", "merge", "done"}
    /\ \E a \in 1..Len(scheduled_p1), b \in 1..Len(scheduled_p1) :
          /\ scheduled_p1[a].class_name = scheduled_p1[b].class_name
          /\ scheduled_p1[a].class_name # "General"
          /\ scheduled_p1[a].date # scheduled_p1[b].date
    /\ \E a \in 1..Len(scheduled_p1), b \in 1..Len(scheduled_p1) :
          /\ a # b
          /\ scheduled_p1[a].class_name = "General"
          /\ scheduled_p1[b].class_name = "General"
          /\ scheduled_p1[a].date = scheduled_p1[b].date

\* block k of a date is long enough for the session
Fits(day_blocks, k, session) ==
    day_blocks[k][2] - day_blocks[k][1] >= session.duration_minutes

\* date d may take the session: not after its due date, inside the daily cap,
\* allowed by spacing, and with a block long enough
Eligible(d, session, blocks_map, usage, classes, max_minutes, enforce_spacing) ==
    /\ d <= session.due_date
    /\ usage[d] + session.duration_minutes <= max_minutes
    /\ ~(enforce_spacing /\ session.class_name # "General"
                         /\ session.class_name \in classes[d])
    /\ \E k \in 1..Len(blocks_map[d]) : Fits(blocks_map[d], k, session)

\* rec is the session put at the start of the first long-enough block of the
\* earliest eligible date
PlacedFirstFit(session, rec, blocks_map, usage, classes, max_minutes, enforce_spacing) ==
    /\ rec.date \in DOMAIN blocks_map
    /\ Eligible(rec.date, session, blocks_map, usage, classes, max_minutes, enforce_spacing)
    /\ \A d \in DOMAIN blocks_map :
          d < rec.date =>
              ~Eligible(d, session, blocks_map, usage, classes, max_minutes, enforce_spacing)
    /\ \E k \in 1..Len(blocks_map[rec.date]) :
          /\ Fits(blocks_map[rec.date], k, session)
          /\ \A j \in 1..(k - 1) : ~Fits(blocks_map[rec.date], j, session)
          /\ rec.start = blocks_map[rec.date][k][1]
    /\ rec.end = rec.start + session.duration_minutes

\* C23: first-fit: every session a phase places is put on the earliest date
\* <= its due_date that passes the daily-cap and spacing checks of that phase
\* and has a block at least as long as the session, in the first such block
\* of that date in list order, starting exactly at that block's start.
C23_FirstFit ==
    [][/\ (pc = "phase1" /\ Len(scheduled_p1') > Len(scheduled_p1)) =>
             PlacedFirstFit(floating_sessions[idx], scheduled_p1'[Len(scheduled_p1')],
                            free_blocks, daily_usage_tracker, daily_class_tracker,
                            Phase1MaxHours * MinutesPerHour, TRUE)
       /\ (pc = "phase2" /\ Len(scheduled_p2') > Len(scheduled_p2)) =>
             PlacedFirstFit(unscheduled_p1[idx], scheduled_p2'[Len(scheduled_p2')],
                            free_blocks, daily_usage_tracker, daily_class_tracker,
                            Phase2MaxHours * MinutesPerHour, FALSE)]_vars

\* a session was placed after today although today had free blocks, and one
\* was placed today later than the start of today's first block
C23_Witness ==
    /\ pc = "done"
    /\ today_date \in DOMAIN FreeBlocksOfRun
    /\ FreeBlocksOfRun[today_date] # <<>>
    /\ \E a \in 1..Len(Placed) : Placed[a].date > today_date
    /\ \E a \in 1..Len(Placed) :
          /\ Placed[a].date = today_date
          /\ Placed[a].start > FreeBlocksOfRun[today_date][1][1]

----------------------------------------------------------------------------
(* Claims about phase 2 and the merge step *)

\* no date may take the session
Infeasible(session, blocks_map, usage, classes, max_minutes, enforce_spacing) ==
    \A d \in DOMAIN blocks_map :
        ~Eligible(d, session, blocks_map, usage, classes, max_minutes, enforce_spacing)

\* C24: phase 2 starts from the free blocks and the per-date used minutes
\* phase 1 left; each of its steps takes the next session phase 1 left
\* unplaced and either places it first-fit with spacing disabled and a 24 h
\* cap or, when no date can take it under these rules, reports it
\* unscheduled; it ends having attempted each of them once; and no step of it
\* changes the phase-1 schedule or the list phase 1 left.
C24_Phase2Frame ==
    [][/\ (pc = "phase1" /\ pc' = "phase2") =>
             /\ UNCHANGED <<free_blocks, daily_usage_tracker, scheduled_p1, unscheduled_p1>>
             /\ idx' = 1
       /\ pc = "phase2" => UNCHANGED <<scheduled_p1, unscheduled_p1, fixed_tasks>>
       /\ (pc = "phase2" /\ pc' = "phase2") =>
             LET session == unscheduled_p1[idx]
             IN /\ idx' = idx + 1
                /\ \/ /\ unscheduled_final' = unscheduled_final
                      /\ Len(scheduled_p2') = Len(scheduled_p2) + 1
                      /\ SubSeq(scheduled_p2', 1, Len(scheduled_p2)) = scheduled_p2
                      /\ scheduled_p2'[Len(scheduled_p2')].assignment_id = session.assignment_id
                      /\ scheduled_p2'[Len(scheduled_p2')].i = session.i
                      /\ PlacedFirstFit(session, scheduled_p2'[Len(scheduled_p2')],
                                        free_blocks, daily_usage_tracker, daily_class_tracker,
                                        Phase2MaxHours * MinutesPerHour, FALSE)
                   \/ /\ scheduled_p2' = scheduled_p2
                      /\ unscheduled_final' = Append(unscheduled_final, session)
                      /\ Infeasible(session, free_blocks, daily_usage_tracker,
                                    daily_class_tracker,
                                    Phase2MaxHours * MinutesPerHour, FALSE)
       /\ (pc = "phase2" /\ pc' = "merge") =>
             Len(scheduled_p2) + Len(unscheduled_final) = Len(unscheduled_p1)]_vars

\* phase 2 has run after a phase 1 that placed something, and it placed a
\* session whose class label phase 1 had already used on that date
C24_Witness ==
    /\ pc = "done"
    /\ scheduled_p1 # <<>>
    /\ \E a \in 1..Len(scheduled_p2), b \in 1..Len(scheduled_p1) :
          /\ scheduled_p2[a].date = scheduled_p1[b].date
          /\ scheduled_p2[a].class_name = scheduled_p1[b].class_name
          /\ scheduled_p2[a].class_name # "General"

\* the scan the statement describes: consecutive entries are joined exactly
\* when they come from the same task and the first ends where the second starts
RECURSIVE JoinByTask(_, _)
JoinByTask(current_block, rest) ==
    IF rest = <<>> THEN <<current_block>>
    ELSE IF TaskOf(current_block) = TaskOf(Head(rest)) /\ current_block.end = Head(rest).start
         THEN JoinByTask([current_block EXCEPT
                             !.end = Head(rest).end,
                             !.duration_minutes = @ + Head(rest).duration_minutes],
                         Tail(rest))
         ELSE <<current_block>> \o JoinByTask(Head(rest), Tail(rest))

\* the entries handed to the merge step, in start order
AllScheduledByStart ==
    LET all_scheduled == fixed_tasks \o scheduled_p1 \o scheduled_p2
    IN StableSort(all_scheduled, [k \in 1..Len(all_scheduled) |-> <<all_scheduled[k].start>>])

\* C25: merge_contiguous_sessions joins two entries that are consecutive in
\* start order if and only if they belong to the same task and the first's end
\* equals the second's start, never joins entries of different tasks, and
\* keeps the total of duration_minutes. The code compares assignment_name, so
\* two tasks of one name are joined.
C25_MergeIffSameTaskTouching ==
    pc = "done" =>
        /\ final_optimized =
              (IF AllScheduledByStart = <<>> THEN <<>>
               ELSE JoinByTask(Head(AllScheduledByStart), Tail(AllScheduledByStart)))
        /\ SumSeq([k \in 1..Len(final_optimized) |-> final_optimized[k].duration_minutes])
              = SumSeq([k \in 1..Len(AllScheduledByStart) |->
                           AllScheduledByStart[k].duration_minutes])

----------------------------------------------------------------------------
(* Claims about where and when sessions are placed *)

\* C26: no scheduling into the past: no free block and no scheduled study
\* session starts before the current time of the run.
C26_NothingBeforeNow ==
    /\ \A d \in DOMAIN free_blocks :
          \A k \in 1..Len(free_blocks[d]) : free_blocks[d][k][1] >= now
    /\ \A a \in 1..Len(Placed) : Placed[a].start >= now

\* the run started inside today's work window and a session starts at that very minute
C26_Witness ==
    /\ pc = "done"
    /\ today_date \in DOMAIN FreeBlocksOfRun
    /\ WindowOf(today_date)[1] < now
    /\ \E a \in 1..Len(Placed) : Placed[a].start = now

\* C27: any two study sessions placed on the same date, by either phase, are
\* at least BreakMinutes apart.
C27_BreakBetweenSessions ==
    \A a \in 1..Len(Placed), b \in 1..Len(Placed) :
        (a # b /\ Placed[a].date = Placed[b].date) =>
            \/ Placed[a].end + BreakMinutes <= Placed[b].start
            \/ Placed[b].end + BreakMinutes <= Placed[a].start

\* two 60-minute sessions of one task on one date, exactly 15 minutes apart
C27_Witness ==
    /\ pc = "done"
    /\ \E a \in 1..Len(Placed), b \in 1..Len(Placed) :
          /\ Placed[a].assignment_id = Placed[b].assignment_id
          /\ Placed[a].duration_minutes = 60
          /\ Placed[b].duration_minutes = 60
          /\ Placed[a].date = Placed[b].date
          /\ Placed[a].end + BreakMinutes = Placed[b].start

\* C28: a session is reported unscheduled only when it is infeasible: in a
\* finished run, for every session of the final unscheduled list no date up
\* to its effective due date has a remaining free block at least as long as
\* the session.
C28_UnscheduledOnlyIfInfeasible ==
    pc = "done" =>
        \A a \in 1..Len(unscheduled_final) :
            \A d \in DOMAIN free_blocks :
                d <= unscheduled_final[a].due_date =>
                    \A k \in 1..Len(free_blocks[d]) :
                        ~Fits(free_blocks[d], k, unscheduled_final[a])

\* a session is left unscheduled although a date after its due date still
\* has a block long enough
C28_Witness ==
    /\ pc = "done"
    /\ \E a \in 1..Len(unscheduled_final) :
          \E d \in DOMAIN free_blocks :
              /\ d > unscheduled_final[a].due_date
              /\ \E k \in 1..Len(free_blocks[d]) : Fits(free_blocks[d], k, unscheduled_final[a])

\* C29: for a task that is not overdue no scheduled session ends after the
\* original due timestamp of the task, sessions on the due date included. The
\* date loop compares dates only (line 316).
C29_EndsByDueTimestamp ==
    \A a \in 1..Len(Placed) :
        ~Placed[a].is_overdue => Placed[a].end <= Placed[a].full_due_dt

\* C30: every derived session lasts at least 1 minute, and once placed has
\* start < end, whatever the effort and the session count, a count larger
\* than the minutes of the task included.
C30_SessionsHavePositiveLength ==
    Returned("generate_sessions_from_assignments") =>
        \A k \in 1..Len(fn_result) :
            /\ fn_result[k].duration_minutes >= 1
            /\ PlacedRecord(fn_result[k], 0, 0).start < PlacedRecord(fn_result[k], 0, 0).end

====
